---------------------------- MODULE Spec2Model ----------------------------
(***************************************************************************)
(* The error type of serde-pickle (src/error.rs): the ErrorCode reasons,   *)
(* the three-way Error envelope, the conversions from io::Error and        *)
(* byteorder::Error, the Display and description renderings and the serde  *)
(* de::Error / ser::Error constructors.                                     *)
(*                                                                         *)
(* A text is a sequence of characters, each character a one-character      *)
(* string (a character outside ASCII is named by its code point), so that  *)
(* prefixes, substrings and concatenations of rendered messages are        *)
(* computed and not assumed.                                               *)
(***************************************************************************)
EXTENDS Integers, Sequences, FiniteSets

VARIABLES err, origin, shown, codeShown, described

vars == <<err, origin, shown, codeShown, described>>

---------------------------------------------------------------------------
(* Bounds of the model. *)

\* Longest InvalidLiteral payload (Vec<u8>) that is enumerated.
MaxLiteralLen == 2

\* Largest usize that is enumerated (offsets and lengths); the program's
\* usize is wider, the renderer treats every value alike.
MaxUsize == 2147483646

---------------------------------------------------------------------------
(* Texts. *)

Digits == <<"0", "1", "2", "3", "4", "5", "6", "7", "8", "9">>

\* {} of a usize: its decimal digits, no sign, no padding.
RECURSIVE fmt_usize(_)
fmt_usize(n) ==
    IF n < 10 THEN <<Digits[n + 1]>>
    ELSE fmt_usize(n \div 10) \o <<Digits[(n % 10) + 1]>>

\* the text "eval error at offset "
TxtEvalPrefix ==
    <<"e", "v", "a", "l", " ", "e", "r", "r", "o", "r", " ", "a", "t", " ",
      "o", "f", "f", "s", "e", "t", " ">>

\* the text ": "
TxtSep ==
    <<":", " ">>

\* the text "decoding error: "
TxtSyntaxPrefix ==
    <<"d", "e", "c", "o", "d", "i", "n", "g", " ", "e", "r", "r", "o", "r",
      ":", " ">>

\* the text "unsupported opcode "
TxtUnsupported ==
    <<"u", "n", "s", "u", "p", "p", "o", "r", "t", "e", "d", " ", "o", "p",
      "c", "o", "d", "e", " ">>

\* the text "EOF while parsing"
TxtEOFWhileParsing ==
    <<"E", "O", "F", " ", "w", "h", "i", "l", "e", " ", "p", "a", "r", "s",
      "i", "n", "g">>

\* the text "pickle stack underflow"
TxtStackUnderflow ==
    <<"p", "i", "c", "k", "l", "e", " ", "s", "t", "a", "c", "k", " ", "u",
      "n", "d", "e", "r", "f", "l", "o", "w">>

\* the text "negative length prefix"
TxtNegativeLength ==
    <<"n", "e", "g", "a", "t", "i", "v", "e", " ", "l", "e", "n", "g", "t",
      "h", " ", "p", "r", "e", "f", "i", "x">>

\* the text "string is not UTF8 encoded"
TxtStringNotUTF8 ==
    <<"s", "t", "r", "i", "n", "g", " ", "i", "s", " ", "n", "o", "t", " ",
      "U", "T", "F", "8", " ", "e", "n", "c", "o", "d", "e", "d">>

\* the text "invalid type of top of stack"
TxtInvalidStackTop ==
    <<"i", "n", "v", "a", "l", "i", "d", " ", "t", "y", "p", "e", " ", "o",
      "f", " ", "t", "o", "p", " ", "o", "f", " ", "s", "t", "a", "c", "k">>

\* the text "dict key or set item not hashable"
TxtValueNotHashable ==
    <<"d", "i", "c", "t", " ", "k", "e", "y", " ", "o", "r", " ", "s", "e",
      "t", " ", "i", "t", "e", "m", " ", "n", "o", "t", " ", "h", "a", "s",
      "h", "a", "b", "l", "e">>

\* the text "literal is invalid: "
TxtInvalidLiteral ==
    <<"l", "i", "t", "e", "r", "a", "l", " ", "i", "s", " ", "i", "n", "v",
      "a", "l", "i", "d", ":", " ">>

\* the text "trailing bytes found"
TxtTrailingBytes ==
    <<"t", "r", "a", "i", "l", "i", "n", "g", " ", "b", "y", "t", "e", "s",
      " ", "f", "o", "u", "n", "d">>

\* the text "invalid type: "
TxtInvalidType ==
    <<"i", "n", "v", "a", "l", "i", "d", " ", "t", "y", "p", "e", ":", " ">>

\* the text "invalid value: "
TxtInvalidValue ==
    <<"i", "n", "v", "a", "l", "i", "d", " ", "v", "a", "l", "u", "e", ":",
      " ">>

\* the text "invalid length: "
TxtInvalidLength ==
    <<"i", "n", "v", "a", "l", "i", "d", " ", "l", "e", "n", "g", "t", "h",
      ":", " ">>

\* the text "unknown variant: "
TxtUnknownVariant ==
    <<"u", "n", "k", "n", "o", "w", "n", " ", "v", "a", "r", "i", "a", "n",
      "t", ":", " ">>

\* the text "unknown field: "
TxtUnknownField ==
    <<"u", "n", "k", "n", "o", "w", "n", " ", "f", "i", "e", "l", "d", ":",
      " ">>

\* the text "missing field: "
TxtMissingField ==
    <<"m", "i", "s", "s", "i", "n", "g", " ", "f", "i", "e", "l", "d", ":",
      " ">>

\* the text "pickle eval error"
TxtEvalDescription ==
    <<"p", "i", "c", "k", "l", "e", " ", "e", "v", "a", "l", " ", "e", "r",
      "r", "o", "r">>

\* the text "serde decoding error"
TxtSyntaxDescription ==
    <<"s", "e", "r", "d", "e", " ", "d", "e", "c", "o", "d", "i", "n", "g",
      " ", "e", "r", "r", "o", "r">>

\* the text "Unexpected end of file."
TxtByteorderEOF ==
    <<"U", "n", "e", "x", "p", "e", "c", "t", "e", "d", " ", "e", "n", "d",
      " ", "o", "f", " ", "f", "i", "l", "e", ".">>

\* the text "id"
StrId ==
    <<"i", "d">>

\* the text "7"
StrSeven ==
    <<"7">>

\* the text "at offset 7"
StrAtOffset7 ==
    <<"a", "t", " ", "o", "f", "f", "s", "e", "t", " ", "7">>

\* the text "no such file"
TxtNoSuchFile ==
    <<"n", "o", " ", "s", "u", "c", "h", " ", "f", "i", "l", "e">>

\* the text "entity not found"
TxtEntityNotFound ==
    <<"e", "n", "t", "i", "t", "y", " ", "n", "o", "t", " ", "f", "o", "u",
      "n", "d">>

\* the text "failed to fill whole buffer"
TxtFillBuffer ==
    <<"f", "a", "i", "l", "e", "d", " ", "t", "o", " ", "f", "i", "l", "l",
      " ", "w", "h", "o", "l", "e", " ", "b", "u", "f", "f", "e", "r">>

\* the text "decoding error: EOF while parsing"
TxtLooksLikeSyntax ==
    <<"d", "e", "c", "o", "d", "i", "n", "g", " ", "e", "r", "r", "o", "r",
      ":", " ", "E", "O", "F", " ", "w", "h", "i", "l", "e", " ", "p", "a",
      "r", "s", "i", "n", "g">>

---------------------------------------------------------------------------
(* Payloads. *)

\* Opcode characters carried by Unsupported: a plain one and two that the
\* Debug rendering of a char escapes.
Opcodes == {"a", "'", "\n"}

\* {:?} of a char: the character between single quotes, a quote, a backslash
\* and a line feed escaped with a backslash.
fmt_debug_char(ch) ==
    <<"'">>
    \o (CASE ch = "\n" -> <<"\\", "n">>
          [] ch = "'" -> <<"\\", "'">>
          [] ch = "\\" -> <<"\\", "\\">>
          [] OTHER -> <<ch>>)
    \o <<"'">>

\* Bytes carried by InvalidLiteral: the ASCII letter a, the two bytes of the
\* UTF-8 encoding of U+00E9 (0xC3 0xA9), and 0xFF, which no UTF-8 text holds.
Bytes == {97, 195, 169, 255}

Literals == UNION {[1..n -> Bytes] : n \in 0..MaxLiteralLen}

\* String::from_utf8_lossy over Bytes: an ASCII byte is its character, a
\* two-byte lead followed by a continuation byte is the character they
\* encode, and any other byte is replaced by U+FFFD. A character outside
\* ASCII is named by its code point.
RECURSIVE from_utf8_lossy(_)
from_utf8_lossy(l) ==
    IF l = <<>> THEN <<>>
    ELSE IF l[1] < 128
    THEN <<(CASE l[1] = 97 -> "a")>> \o from_utf8_lossy(Tail(l))
    ELSE IF l[1] \in 194..223 /\ Len(l) >= 2 /\ l[2] \in 128..191
    THEN <<(CASE l[1] = 195 /\ l[2] = 169 -> "U+00E9")>>
         \o from_utf8_lossy(Tail(Tail(l)))
    ELSE <<"U+FFFD">> \o from_utf8_lossy(Tail(l))

\* serde's de::Type descriptors that are enumerated.
Types == {"Bool", "Str", "Map"}

\* the text "Bool"
TxtBool ==
    <<"B", "o", "o", "l">>

\* the text "Str"
TxtStr ==
    <<"S", "t", "r">>

\* the text "Map"
TxtMap ==
    <<"M", "a", "p">>

\* {:?} of a de::Type: the name of the variant.
fmt_debug_Type(t) ==
    CASE t = "Bool" -> TxtBool
      [] t = "Str" -> TxtStr
      [] t = "Map" -> TxtMap

\* Messages and names a caller supplies: the empty one, a field name, one
\* that is a number and one that reads like the position of an Eval error.
Strings == {<<>>, StrId, StrSeven, StrAtOffset7}

\* usize values: offsets of Eval and lengths of InvalidLength.
Usizes == {0, 7, 42, MaxUsize}

---------------------------------------------------------------------------
(* io::Error and byteorder::Error, the two failures the conversions take.  *)
(* An io::Error is opaque to this program: what it reads of one is its     *)
(* kind, its Display text and its description.                             *)

IoErrors ==
    { [kind |-> "NotFound", text |-> TxtNoSuchFile, desc |-> TxtEntityNotFound],
      [kind |-> "UnexpectedEof", text |-> TxtFillBuffer, desc |-> TxtFillBuffer],
      [kind |-> "Other", text |-> TxtLooksLikeSyntax,
       desc |-> TxtLooksLikeSyntax],
      [kind |-> "Other", text |-> <<>>, desc |-> <<>>] }

ByteorderErrors ==
    {[tag |-> "UnexpectedEOF"]} \cup {[tag |-> "Io", io |-> e] : e \in IoErrors}

\* Display and description of a byteorder::Error.
byteorder_fmt(error) ==
    IF error.tag = "Io" THEN error.io.text ELSE TxtByteorderEOF

byteorder_description(error) ==
    IF error.tag = "Io" THEN error.io.desc ELSE TxtByteorderEOF

\* io::Error::new(kind, error): an io::Error of that kind whose text and
\* description are those of the error it wraps.
io_Error_new(kind, error) ==
    [kind |-> kind, text |-> byteorder_fmt(error),
     desc |-> byteorder_description(error)]

---------------------------------------------------------------------------
(* ErrorCode and Error. *)

ErrorCode ==
    {[tag |-> "Unsupported", ch |-> c] : c \in Opcodes}
    \cup {[tag |-> t] : t \in {"EOFWhileParsing", "StackUnderflow",
                               "NegativeLength", "StringNotUTF8",
                               "InvalidStackTop", "ValueNotHashable",
                               "TrailingBytes"}}
    \cup {[tag |-> "InvalidLiteral", bytes |-> l] : l \in Literals}
    \cup {[tag |-> "InvalidType", ty |-> t] : t \in Types}
    \cup {[tag |-> "InvalidValue", msg |-> s] : s \in Strings}
    \cup {[tag |-> "InvalidLength", len |-> n] : n \in Usizes}
    \cup {[tag |-> "UnknownVariant", name |-> s] : s \in Strings}
    \cup {[tag |-> "UnknownField", name |-> s] : s \in Strings}
    \cup {[tag |-> "MissingField", name |-> s] : s \in Strings}
    \cup {[tag |-> "Custom", msg |-> s] : s \in Strings}

Io(error) == [tag |-> "Io", io |-> error]
Eval(code, offset) == [tag |-> "Eval", code |-> code, offset |-> offset]
Syntax(code) == [tag |-> "Syntax", code |-> code]

\* Every Error over the enumerated payloads; the io::Error of an Io is one a
\* reader hands over or the one from_byteorder makes.
Error ==
    {Io(e) : e \in IoErrors \cup {io_Error_new("UnexpectedEof",
                                               [tag |-> "UnexpectedEOF"])}}
    \cup {Eval(c, n) : c \in ErrorCode, n \in Usizes}
    \cup {Syntax(c) : c \in ErrorCode}

\* fmt_ErrorCode with one arm changed: MissingField writes the field name
\* alone, without its "missing field: " label.
fmt_ErrorCode_BareMissingField(code) ==
    CASE code.tag = "Unsupported" -> TxtUnsupported \o fmt_debug_char(code.ch)
      [] code.tag = "InvalidLiteral" ->
            TxtInvalidLiteral \o from_utf8_lossy(code.bytes)
      [] code.tag = "InvalidType" -> TxtInvalidType \o fmt_debug_Type(code.ty)
      [] code.tag = "InvalidValue" -> TxtInvalidValue \o code.msg
      [] code.tag = "InvalidLength" -> TxtInvalidLength \o fmt_usize(code.len)
      [] code.tag = "UnknownVariant" -> TxtUnknownVariant \o code.name
      [] code.tag = "UnknownField" -> TxtUnknownField \o code.name
      [] code.tag = "MissingField" -> code.name
      [] code.tag = "Custom" -> code.msg
      [] code.tag = "EOFWhileParsing" -> TxtEOFWhileParsing
      [] code.tag = "StackUnderflow" -> TxtStackUnderflow
      [] code.tag = "NegativeLength" -> TxtNegativeLength
      [] code.tag = "StringNotUTF8" -> TxtStringNotUTF8
      [] code.tag = "InvalidStackTop" -> TxtInvalidStackTop
      [] code.tag = "ValueNotHashable" -> TxtValueNotHashable
      [] code.tag = "TrailingBytes" -> TxtTrailingBytes

\* fmt_ErrorCode with one arm changed: UnknownField writes its label and
\* leaves the field name out.
fmt_ErrorCode_UnnamedUnknownField(code) ==
    CASE code.tag = "Unsupported" -> TxtUnsupported \o fmt_debug_char(code.ch)
      [] code.tag = "InvalidLiteral" ->
            TxtInvalidLiteral \o from_utf8_lossy(code.bytes)
      [] code.tag = "InvalidType" -> TxtInvalidType \o fmt_debug_Type(code.ty)
      [] code.tag = "InvalidValue" -> TxtInvalidValue \o code.msg
      [] code.tag = "InvalidLength" -> TxtInvalidLength \o fmt_usize(code.len)
      [] code.tag = "UnknownVariant" -> TxtUnknownVariant \o code.name
      [] code.tag = "UnknownField" -> TxtUnknownField
      [] code.tag = "MissingField" -> TxtMissingField \o code.name
      [] code.tag = "Custom" -> code.msg
      [] code.tag = "EOFWhileParsing" -> TxtEOFWhileParsing
      [] code.tag = "StackUnderflow" -> TxtStackUnderflow
      [] code.tag = "NegativeLength" -> TxtNegativeLength
      [] code.tag = "StringNotUTF8" -> TxtStringNotUTF8
      [] code.tag = "InvalidStackTop" -> TxtInvalidStackTop
      [] code.tag = "ValueNotHashable" -> TxtValueNotHashable
      [] code.tag = "TrailingBytes" -> TxtTrailingBytes

\* impl fmt::Display for ErrorCode
fmt_ErrorCode(code) ==
    CASE code.tag = "Unsupported" -> TxtUnsupported \o fmt_debug_char(code.ch)
      [] code.tag = "EOFWhileParsing" -> TxtEOFWhileParsing
      [] code.tag = "StackUnderflow" -> TxtStackUnderflow
      [] code.tag = "NegativeLength" -> TxtNegativeLength
      [] code.tag = "StringNotUTF8" -> TxtStringNotUTF8
      [] code.tag = "InvalidStackTop" -> TxtInvalidStackTop
      [] code.tag = "ValueNotHashable" -> TxtValueNotHashable
      [] code.tag = "InvalidLiteral" ->
            TxtInvalidLiteral \o from_utf8_lossy(code.bytes)
      [] code.tag = "TrailingBytes" -> TxtTrailingBytes
      [] code.tag = "InvalidType" -> TxtInvalidType \o fmt_debug_Type(code.ty)
      [] code.tag = "InvalidValue" -> TxtInvalidValue \o code.msg
      [] code.tag = "InvalidLength" -> TxtInvalidLength \o fmt_usize(code.len)
      [] code.tag = "UnknownVariant" -> TxtUnknownVariant \o code.name
      [] code.tag = "UnknownField" -> TxtUnknownField \o code.name
      [] code.tag = "MissingField" -> TxtMissingField \o code.name
      [] code.tag = "Custom" -> code.msg

\* from_io restating the failure by its description instead of keeping it.
from_io_Restated(error) ==
    Io([kind |-> error.kind, text |-> error.desc, desc |-> error.desc])

\* impl From<io::Error> for Error
from_io(error) == Io(error)

\* from_byteorder making the end-of-input failure an io::Error of kind Other.
from_byteorder_KindOther(error) ==
    CASE error.tag = "Io" -> Io(error.io)
      [] error.tag = "UnexpectedEOF" -> Io(io_Error_new("Other", error))

\* impl From<byteorder::Error> for Error
from_byteorder(error) ==
    CASE error.tag = "Io" -> Io(error.io)
      [] error.tag = "UnexpectedEOF" ->
            Io(io_Error_new("UnexpectedEof", error))

\* fmt_Error with the two arguments of the Eval format swapped.
fmt_Error_SwappedArgs(e) ==
    CASE e.tag = "Io" -> e.io.text
      [] e.tag = "Eval" ->
            TxtEvalPrefix \o fmt_ErrorCode(e.code) \o TxtSep
            \o fmt_usize(e.offset)
      [] e.tag = "Syntax" -> TxtSyntaxPrefix \o fmt_ErrorCode(e.code)

\* fmt_Error with the Syntax arm copied from the Eval arm, offset 0.
fmt_Error_SyntaxWithOffset(e) ==
    CASE e.tag = "Io" -> e.io.text
      [] e.tag = "Eval" ->
            TxtEvalPrefix \o fmt_usize(e.offset) \o TxtSep
            \o fmt_ErrorCode(e.code)
      [] e.tag = "Syntax" ->
            TxtEvalPrefix \o fmt_usize(0) \o TxtSep \o fmt_ErrorCode(e.code)

\* fmt_Error with the Syntax arm writing the code alone.
fmt_Error_NoSyntaxPrefix(e) ==
    CASE e.tag = "Io" -> e.io.text
      [] e.tag = "Eval" ->
            TxtEvalPrefix \o fmt_usize(e.offset) \o TxtSep
            \o fmt_ErrorCode(e.code)
      [] e.tag = "Syntax" -> fmt_ErrorCode(e.code)

\* impl fmt::Display for Error
fmt_Error(e) ==
    CASE e.tag = "Io" -> e.io.text
      [] e.tag = "Eval" ->
            TxtEvalPrefix \o fmt_usize(e.offset) \o TxtSep
            \o fmt_ErrorCode(e.code)
      [] e.tag = "Syntax" -> TxtSyntaxPrefix \o fmt_ErrorCode(e.code)

\* description with the two fixed strings exchanged.
description_Exchanged(e) ==
    CASE e.tag = "Io" -> e.io.desc
      [] e.tag = "Eval" -> TxtSyntaxDescription
      [] e.tag = "Syntax" -> TxtEvalDescription

\* impl error::Error for Error
description(e) ==
    CASE e.tag = "Io" -> e.io.desc
      [] e.tag = "Eval" -> TxtEvalDescription
      [] e.tag = "Syntax" -> TxtSyntaxDescription

\* impl de::Error for Error
custom(msg) == Syntax([tag |-> "Custom", msg |-> msg])

\* end_of_stream raising the interpreter's positioned error.
end_of_stream_Positioned == Eval([tag |-> "EOFWhileParsing"], 0)

end_of_stream == Syntax([tag |-> "EOFWhileParsing"])

invalid_type(ty) == Syntax([tag |-> "InvalidType", ty |-> ty])

invalid_value(msg) == Syntax([tag |-> "InvalidValue", msg |-> msg])

invalid_length(len) == Syntax([tag |-> "InvalidLength", len |-> len])

unknown_variant(variant) == Syntax([tag |-> "UnknownVariant", name |-> variant])

unknown_field(field) == Syntax([tag |-> "UnknownField", name |-> field])

missing_field(field) == Syntax([tag |-> "MissingField", name |-> field])

\* ser custom filing the message under InvalidValue.
ser_custom_AsInvalidValue(msg) == Syntax([tag |-> "InvalidValue", msg |-> msg])

\* impl ser::Error for Error
ser_custom(msg) == Syntax([tag |-> "Custom", msg |-> msg])

---------------------------------------------------------------------------
(* The state: the Error last constructed, the call that constructed it,    *)
(* and what to_string of it, to_string of its ErrorCode and description    *)
(* returned since.                                                         *)

NoError == [tag |-> "None"]
NotYet == [ok |-> FALSE, text |-> <<>>]
Returned(t) == [ok |-> TRUE, text |-> t]

Init ==
    /\ err = NoError
    /\ origin = [op |-> "none"]
    /\ shown = NotYet
    /\ codeShown = NotYet
    /\ described = NotYet

\* A newly constructed Error has not been rendered yet.
Fresh ==
    /\ shown' = NotYet
    /\ codeShown' = NotYet
    /\ described' = NotYet

FromIo ==
    \E e \in IoErrors :
        /\ err' = from_io(e)
        /\ origin' = [op |-> "from_io", arg |-> e]
        /\ Fresh

FromByteorder ==
    \E e \in ByteorderErrors :
        /\ err' = from_byteorder(e)
        /\ origin' = [op |-> "from_byteorder", arg |-> e]
        /\ Fresh

DeCustom ==
    \E m \in Strings :
        /\ err' = custom(m)
        /\ origin' = [op |-> "de_custom", arg |-> m]
        /\ Fresh

EndOfStream ==
    /\ err' = end_of_stream
    /\ origin' = [op |-> "end_of_stream", arg |-> <<>>]
    /\ Fresh

InvalidType ==
    \E t \in Types :
        /\ err' = invalid_type(t)
        /\ origin' = [op |-> "invalid_type", arg |-> t]
        /\ Fresh

InvalidValue ==
    \E m \in Strings :
        /\ err' = invalid_value(m)
        /\ origin' = [op |-> "invalid_value", arg |-> m]
        /\ Fresh

InvalidLength ==
    \E n \in Usizes :
        /\ err' = invalid_length(n)
        /\ origin' = [op |-> "invalid_length", arg |-> n]
        /\ Fresh

UnknownVariant ==
    \E v \in Strings :
        /\ err' = unknown_variant(v)
        /\ origin' = [op |-> "unknown_variant", arg |-> v]
        /\ Fresh

UnknownField ==
    \E f \in Strings :
        /\ err' = unknown_field(f)
        /\ origin' = [op |-> "unknown_field", arg |-> f]
        /\ Fresh

MissingField ==
    \E f \in Strings :
        /\ err' = missing_field(f)
        /\ origin' = [op |-> "missing_field", arg |-> f]
        /\ Fresh

SerCustom ==
    \E m \in Strings :
        /\ err' = ser_custom(m)
        /\ origin' = [op |-> "ser_custom", arg |-> m]
        /\ Fresh

\* The interpreter raises Error::Eval(code, offset) through the variant
\* itself, and any caller may build Error::Syntax(code) the same way.
RaiseEval ==
    \E c \in ErrorCode, n \in Usizes :
        /\ err' = Eval(c, n)
        /\ origin' = [op |-> "Eval", arg |-> <<c, n>>]
        /\ Fresh

RaiseSyntax ==
    \E c \in ErrorCode :
        /\ err' = Syntax(c)
        /\ origin' = [op |-> "Syntax", arg |-> c]
        /\ Fresh

\* err.to_string()
ToString ==
    /\ err # NoError
    /\ shown' = Returned(fmt_Error(err))
    /\ UNCHANGED <<err, origin, codeShown, described>>

\* code.to_string(), of the ErrorCode an Eval or a Syntax carries
CodeToString ==
    /\ err.tag \in {"Eval", "Syntax"}
    /\ codeShown' = Returned(fmt_ErrorCode(err.code))
    /\ UNCHANGED <<err, origin, shown, described>>

\* err.description()
Description ==
    /\ err # NoError
    /\ described' = Returned(description(err))
    /\ UNCHANGED <<err, origin, shown, codeShown>>

Next ==
    \/ FromIo
    \/ FromByteorder
    \/ DeCustom
    \/ EndOfStream
    \/ InvalidType
    \/ InvalidValue
    \/ InvalidLength
    \/ UnknownVariant
    \/ UnknownField
    \/ MissingField
    \/ SerCustom
    \/ RaiseEval
    \/ RaiseSyntax
    \/ ToString
    \/ CodeToString
    \/ Description

Spec == Init /\ [][Next]_vars

---------------------------------------------------------------------------
(* What the claims read off a text. *)

IsDigit(c) == \E i \in 1..10 : Digits[i] = c

\* s occurs in t as a contiguous run of characters.
Contains(t, s) ==
    \E i \in 0..(Len(t) - Len(s)) : SubSeq(t, i + 1, i + Len(s)) = s

\* t begins with s.
StartsWith(t, s) == Len(s) <= Len(t) /\ SubSeq(t, 1, Len(s)) = s

DigitValue(c) == CHOOSE i \in 0..9 : Digits[i + 1] = c

\* The number a run of decimal digits writes.
RECURSIVE ParseUsize(_)
ParseUsize(ds) ==
    IF Len(ds) = 1 THEN DigitValue(ds[1])
    ELSE ParseUsize(SubSeq(ds, 1, Len(ds) - 1)) * 10 + DigitValue(ds[Len(ds)])

\* A decimal number as {} writes one: digits only, and no leading zero
\* unless it is the single digit 0.
IsDecimal(ds) ==
    /\ Len(ds) >= 1
    /\ \A i \in 1..Len(ds) : IsDigit(ds[i])
    /\ (Len(ds) > 1 => ds[1] # "0")

\* How many digits follow the first k characters of t.
RECURSIVE DigitRun(_, _)
DigitRun(t, k) ==
    IF k < Len(t) /\ IsDigit(t[k + 1]) THEN 1 + DigitRun(t, k + 1) ELSE 0

\* The characters of t after its first k.
After(t, k) == SubSeq(t, k + 1, Len(t))

\* the text "at offset "
TxtAtOffset ==
    <<"a", "t", " ", "o", "f", "f", "s", "e", "t", " ">>

\* A text holds an offset when "at offset " followed by a digit occurs in
\* it: the way the Eval rendering writes its position.
HasOffset(t) ==
    \E i \in 0..(Len(t) - Len(TxtAtOffset) - 1) :
        /\ SubSeq(t, i + 1, i + Len(TxtAtOffset)) = TxtAtOffset
        /\ IsDigit(t[i + Len(TxtAtOffset) + 1])

\* The constructors of impl de::Error and impl ser::Error.
AdapterOps ==
    {"de_custom", "end_of_stream", "invalid_type", "invalid_value",
     "invalid_length", "unknown_variant", "unknown_field", "missing_field",
     "ser_custom"}

ConversionOps == {"from_io", "from_byteorder"}

---------------------------------------------------------------------------
(* C1: each constructor of de::Error yields the Syntax value the table     *)
(* gives for its argument: custom(m) is Syntax(Custom(m)), end_of_stream() *)
(* is Syntax(EOFWhileParsing), invalid_type(t) is Syntax(InvalidType(t)),  *)
(* invalid_value(m) is Syntax(InvalidValue(m)), invalid_length(n) is       *)
(* Syntax(InvalidLength(n)), unknown_variant(v) is                         *)
(* Syntax(UnknownVariant(v)), unknown_field(f) is Syntax(UnknownField(f)), *)
(* missing_field(f) is Syntax(MissingField(f)); and custom(m) of           *)
(* ser::Error is Syntax(Custom(m)), the value custom(m) of de::Error is.   *)
C1_AdaptersYieldSyntaxValue ==
    /\ origin.op = "de_custom" =>
         err = [tag |-> "Syntax", code |-> [tag |-> "Custom", msg |-> origin.arg]]
    /\ origin.op = "end_of_stream" =>
         err = [tag |-> "Syntax", code |-> [tag |-> "EOFWhileParsing"]]
    /\ origin.op = "invalid_type" =>
         err = [tag |-> "Syntax",
                code |-> [tag |-> "InvalidType", ty |-> origin.arg]]
    /\ origin.op = "invalid_value" =>
         err = [tag |-> "Syntax",
                code |-> [tag |-> "InvalidValue", msg |-> origin.arg]]
    /\ origin.op = "invalid_length" =>
         err = [tag |-> "Syntax",
                code |-> [tag |-> "InvalidLength", len |-> origin.arg]]
    /\ origin.op = "unknown_variant" =>
         err = [tag |-> "Syntax",
                code |-> [tag |-> "UnknownVariant", name |-> origin.arg]]
    /\ origin.op = "unknown_field" =>
         err = [tag |-> "Syntax",
                code |-> [tag |-> "UnknownField", name |-> origin.arg]]
    /\ origin.op = "missing_field" =>
         err = [tag |-> "Syntax",
                code |-> [tag |-> "MissingField", name |-> origin.arg]]
    /\ origin.op = "ser_custom" =>
         /\ err = [tag |-> "Syntax",
                   code |-> [tag |-> "Custom", msg |-> origin.arg]]
         /\ err = custom(origin.arg)

\* The encode-side custom was called with the message "id".
C1_Witness ==
    /\ origin.op = "ser_custom"
    /\ origin.arg = StrId
    /\ err.code.tag = "Custom"

---------------------------------------------------------------------------
\* the text "eval error at offset 42: pickle stack underflow"
TxtScenarioEval42 ==
    <<"e", "v", "a", "l", " ", "e", "r", "r", "o", "r", " ", "a", "t", " ",
      "o", "f", "f", "s", "e", "t", " ", "4", "2", ":", " ", "p", "i", "c",
      "k", "l", "e", " ", "s", "t", "a", "c", "k", " ", "u", "n", "d", "e",
      "r", "f", "l", "o", "w">>

(* C2: the Display text of Eval(code, offset) is "eval error at offset ",  *)
(* then the offset in decimal, then ": ", then the Display text of the     *)
(* code, for every offset (0 and the largest included) and every code; it  *)
(* therefore contains the offset and the code's message, and               *)
(* Eval(StackUnderflow, 42) reads                                          *)
(* "eval error at offset 42: pickle stack underflow".                      *)
C2_EvalDisplayText ==
    (err.tag = "Eval" /\ shown.ok) =>
        LET t == shown.text
            k == Len(TxtEvalPrefix)
            d == DigitRun(t, k)
            number == SubSeq(t, k + 1, k + d)
            codeText == fmt_ErrorCode(err.code)
        IN  /\ StartsWith(t, TxtEvalPrefix)
            /\ IsDecimal(number)
            /\ ParseUsize(number) = err.offset
            /\ SubSeq(t, k + d + 1, k + d + 2) = <<":", " ">>
            /\ After(t, k + d + 2) = codeText
            /\ (codeShown.ok => After(t, k + d + 2) = codeShown.text)
            /\ Contains(t, number)
            /\ Contains(t, codeText)
            /\ (err.code.tag = "StackUnderflow" /\ err.offset = 42
                    => t = TxtScenarioEval42)

\* Eval(StackUnderflow, 42) was rendered, and its code on its own too.
C2_Witness ==
    /\ err = Eval([tag |-> "StackUnderflow"], 42)
    /\ shown.ok
    /\ codeShown.ok

---------------------------------------------------------------------------
\* The text a payload contributes to the Display text of its ErrorCode.
PayloadText(code) ==
    CASE code.tag \in {"InvalidValue", "Custom"} -> code.msg
      [] code.tag \in {"UnknownVariant", "UnknownField", "MissingField"} ->
            code.name
      [] code.tag = "InvalidLiteral" -> from_utf8_lossy(code.bytes)
      [] OTHER -> <<>>

(* C3, as stated: for every ErrorCode, payloads a caller supplies          *)
(* included, the Display text of Syntax(code) never contains an offset.    *)
C3_SyntaxTextNeverHoldsOffset ==
    (err.tag = "Syntax" /\ shown.ok) => ~HasOffset(shown.text)

(* C3, amended: the Display text of Syntax(code) is "decoding error: "     *)
(* followed by the Display text of the code, with no position added: an    *)
(* offset occurs in it exactly when the payload of the code holds one.     *)
C3_SyntaxTextAddsNoOffset ==
    (err.tag = "Syntax" /\ shown.ok) =>
        /\ StartsWith(shown.text, TxtSyntaxPrefix)
        /\ After(shown.text, Len(TxtSyntaxPrefix)) = fmt_ErrorCode(err.code)
        /\ (HasOffset(shown.text) <=> HasOffset(PayloadText(err.code)))

\* A Syntax error whose caller-supplied message holds an offset was rendered.
C3_Witness ==
    /\ err.tag = "Syntax"
    /\ err.code = [tag |-> "Custom", msg |-> StrAtOffset7]
    /\ shown.ok
    /\ HasOffset(shown.text)

---------------------------------------------------------------------------
(* C4, as stated: for every ErrorCode and every payload, the empty message *)
(* of Custom included, the Display text is non-empty.                      *)
C4_CodeTextNonEmpty == codeShown.ok => Len(codeShown.text) > 0

\* What C4 holds of one state: the text is empty for Custom("") alone, and
\* an InvalidLiteral renders its label and one character for each byte or
\* well-formed pair of bytes, U+FFFD for a byte that is not UTF-8.
C4_CodeTextOfState ==
    codeShown.ok =>
        /\ err.tag \in {"Eval", "Syntax"}
        /\ (Len(codeShown.text) = 0
                <=> err.code = [tag |-> "Custom", msg |-> <<>>])
        /\ (err.code.tag = "InvalidLiteral" =>
                /\ StartsWith(codeShown.text, TxtInvalidLiteral)
                /\ Len(codeShown.text) <=
                       Len(TxtInvalidLiteral) + Len(err.code.bytes)
                /\ (\A i \in 1..Len(err.code.bytes) : err.code.bytes[i] = 255)
                       => After(codeShown.text, Len(TxtInvalidLiteral))
                              = [i \in 1..Len(err.code.bytes) |-> "U+FFFD"])

(* C4, amended: for every ErrorCode and every payload, rendering returns a *)
(* text (invalid UTF-8 in InvalidLiteral is decoded lossily), the text is  *)
(* non-empty except for Custom with the empty message, whose text is       *)
(* empty, and rendering the same value again returns the same text.        *)
C4_CodeTextNonEmptyUnlessEmptyCustom ==
    /\ []C4_CodeTextOfState
    /\ [][(codeShown.ok /\ codeShown'.ok /\ err' = err)
              => codeShown' = codeShown]_vars

\* An InvalidLiteral of two bytes, the first not UTF-8, was rendered.
C4_Witness ==
    /\ err.tag = "Syntax"
    /\ err.code = [tag |-> "InvalidLiteral", bytes |-> <<255, 97>>]
    /\ codeShown = Returned(TxtInvalidLiteral \o <<"U+FFFD", "a">>)

---------------------------------------------------------------------------
\* The Error the conversion makes of a generic I/O fault of the byte reader.
OfGenericFault(e) == from_byteorder([tag |-> "Io", io |-> e])

(* C5, as stated: the Error converted from the byte reader's unexpected    *)
(* end of input is an Io of kind UnexpectedEof, and is told apart by that  *)
(* kind from the Error converted from any generic I/O fault of the byte    *)
(* reader.                                                                 *)
C5_EofKindApartFromAnyGenericFault ==
    (origin.op = "from_byteorder" /\ origin.arg.tag = "UnexpectedEOF") =>
        /\ err.tag = "Io"
        /\ err.io.kind = "UnexpectedEof"
        /\ \A e \in IoErrors : OfGenericFault(e).io.kind # err.io.kind

(* C5, amended: converting a byte-reader failure always yields Io; Io(e)   *)
(* yields Error::Io carrying that same e, and UnexpectedEOF yields an      *)
(* Error::Io of kind UnexpectedEof, which that kind tells apart from the   *)
(* Error converted from any generic I/O fault whose own kind is not        *)
(* UnexpectedEof (a generic fault of kind UnexpectedEof keeps its kind).   *)
C5_ByteorderConversion ==
    origin.op = "from_byteorder" =>
        /\ err.tag = "Io"
        /\ (origin.arg.tag = "Io" =>
                /\ err = [tag |-> "Io", io |-> origin.arg.io]
                /\ err.io.kind = origin.arg.io.kind)
        /\ (origin.arg.tag = "UnexpectedEOF" =>
                /\ err.io.kind = "UnexpectedEof"
                /\ \A e \in IoErrors :
                       /\ OfGenericFault(e).io.kind = e.kind
                       /\ (e.kind # "UnexpectedEof" =>
                               /\ OfGenericFault(e).io.kind # err.io.kind
                               /\ OfGenericFault(e) # err))

\* The byte reader's unexpected end of input was converted.
C5_Witness ==
    /\ origin.op = "from_byteorder"
    /\ origin.arg.tag = "UnexpectedEOF"
    /\ err.tag = "Io"
    /\ err.io.kind = "UnexpectedEof"

---------------------------------------------------------------------------
(* C6: converting an io::Error e yields Error::Io(e), the failure itself   *)
(* as payload, and the Display text of the result is the Display text of   *)
(* e, with nothing before or after it.                                     *)
C6_IoConversionKeepsFailure ==
    origin.op = "from_io" =>
        /\ err = [tag |-> "Io", io |-> origin.arg]
        /\ (shown.ok => shown.text = origin.arg.text)

\* A failure whose text and description differ was converted and rendered.
C6_Witness ==
    /\ origin.op = "from_io"
    /\ origin.arg.kind = "NotFound"
    /\ shown = Returned(TxtNoSuchFile)

---------------------------------------------------------------------------
(* C7, as stated: the Display text of every Error carries a category       *)
(* prefix, so that no two Errors of different variants (Io, Eval, Syntax)  *)
(* render to the same text.                                                *)
C7_VariantsNeverRenderAlike ==
    shown.ok => \A o \in Error : o.tag # err.tag => fmt_Error(o) # shown.text

\* An io::Error text that starts like an Eval or a Syntax rendering.
HasCategoryPrefix(t) ==
    StartsWith(t, TxtEvalPrefix) \/ StartsWith(t, TxtSyntaxPrefix)

(* C7, amended: the Display text of an Eval starts with                    *)
(* "eval error at offset N: " and that of a Syntax with                    *)
(* "decoding error: ", so no Eval and Syntax render to the same text; the  *)
(* text of an Io is the wrapped failure's text with no prefix, and it      *)
(* differs from every Eval and Syntax text unless the wrapped failure's    *)
(* own text starts with one of the two prefixes.                           *)
C7_CategoryPrefixes ==
    shown.ok =>
        /\ (err.tag = "Eval" =>
                LET k == Len(TxtEvalPrefix)
                    d == DigitRun(shown.text, k)
                IN  /\ StartsWith(shown.text, TxtEvalPrefix)
                    /\ d >= 1
                    /\ SubSeq(shown.text, k + d + 1, k + d + 2) = <<":", " ">>)
        /\ (err.tag = "Syntax" => StartsWith(shown.text, TxtSyntaxPrefix))
        /\ (err.tag = "Io" => shown.text = err.io.text)
        /\ \A o \in Error :
               /\ ({o.tag, err.tag} = {"Eval", "Syntax"}
                       => fmt_Error(o) # shown.text)
               /\ ((o.tag = "Io" /\ err.tag # "Io"
                        /\ ~HasCategoryPrefix(o.io.text))
                       => fmt_Error(o) # shown.text)
               /\ ((o.tag # "Io" /\ err.tag = "Io"
                        /\ ~HasCategoryPrefix(err.io.text))
                       => fmt_Error(o) # shown.text)

\* Syntax(EOFWhileParsing) was rendered, and an io::Error with that very
\* text exists.
C7_Witness ==
    /\ err = Syntax([tag |-> "EOFWhileParsing"])
    /\ shown.ok
    /\ \E o \in Error : o.tag = "Io" /\ fmt_Error(o) = shown.text

---------------------------------------------------------------------------
\* the text "missing field: id"
TxtScenarioMissingId ==
    <<"m", "i", "s", "s", "i", "n", "g", " ", "f", "i", "e", "l", "d", ":",
      " ", "i", "d">>

(* C8: for every adapter call that takes a message, a name or a length     *)
(* (custom, invalid_value, invalid_length, unknown_variant, unknown_field, *)
(* missing_field), the Display text of the error it makes contains that    *)
(* argument verbatim; missing_field("id") makes a Syntax error whose text  *)
(* contains "missing field: id".                                           *)
C8_AdapterTextHoldsArgument ==
    shown.ok =>
        /\ (origin.op \in {"de_custom", "ser_custom", "invalid_value",
                           "unknown_variant", "unknown_field", "missing_field"}
                => Contains(shown.text, origin.arg))
        /\ (origin.op = "invalid_length" =>
                LET n == CHOOSE k \in 1..Len(shown.text) :
                         /\ \A i \in k..Len(shown.text) :
                                IsDigit(shown.text[i])
                         /\ (k > 1 => ~IsDigit(shown.text[k - 1]))
                IN  /\ IsDigit(shown.text[Len(shown.text)])
                    /\ IsDecimal(After(shown.text, n - 1))
                    /\ ParseUsize(After(shown.text, n - 1)) = origin.arg)
        /\ (origin.op = "missing_field" /\ origin.arg = StrId =>
                /\ err.tag = "Syntax"
                /\ Contains(shown.text, TxtScenarioMissingId))

\* missing_field("id") was called and its error rendered.
C8_Witness ==
    /\ origin.op = "missing_field"
    /\ origin.arg = StrId
    /\ shown.ok

---------------------------------------------------------------------------
(* C9: description returns the description of the wrapped failure for      *)
(* Io(e), "pickle eval error" for every Eval(code, offset) and             *)
(* "serde decoding error" for every Syntax(code).                          *)
C9_Description ==
    described.ok =>
        /\ (err.tag = "Io" => described.text = err.io.desc)
        /\ (origin.op = "from_io" => described.text = origin.arg.desc)
        /\ (err.tag = "Eval" => described.text = TxtEvalDescription)
        /\ (err.tag = "Syntax" => described.text = TxtSyntaxDescription)
        /\ (err.tag # "Io" =>
                \A o \in Error : o.tag = err.tag => description(o) = described.text)

\* description was called on an Eval error.
C9_Witness ==
    /\ err.tag = "Eval"
    /\ err.offset = 7
    /\ described = Returned(TxtEvalDescription)

---------------------------------------------------------------------------
(* C10: the two conversions make only Io and the adapters only Syntax, so  *)
(* an Eval comes from the variant itself and from no operation here; the   *)
(* Syntax(EOFWhileParsing) of end_of_stream() is, for every offset,        *)
(* neither equal to Eval(EOFWhileParsing, offset) nor rendered like it.    *)
C10_NoPositionedErrorSynthesized ==
    /\ (origin.op \in ConversionOps => err.tag = "Io")
    /\ (origin.op \in AdapterOps => err.tag = "Syntax")
    /\ (err.tag = "Eval" => origin.op = "Eval")
    /\ (origin.op = "end_of_stream" =>
            \A n \in Usizes :
                LET raised == Eval([tag |-> "EOFWhileParsing"], n)
                IN  /\ err # raised
                    /\ err.code = raised.code
                    /\ (shown.ok => shown.text # fmt_Error(raised)))

\* end_of_stream() was called and its error rendered.
C10_Witness ==
    /\ origin.op = "end_of_stream"
    /\ shown.ok

=============================================================================
